---------------------------- MODULE Spec2Model ----------------------------
(***************************************************************************)
(* A model of the GW-LSS analysis code: the random sky rotation            *)
(* (gwlss/sky.py), the evaluation of a field at an event's posterior       *)
(* samples (scripts/interp.py), the bias models                            *)
(* (gwlss/importance_sampler.py), the path template (gwlss/paths.py) and   *)
(* the loader of evaluated fields (gwlss/utils.py).                        *)
(*                                                                         *)
(* Arithmetic is exact.  Angles are integers counting quarter turns        *)
(* (pi = 2), so that every sine and cosine is -1, 0 or 1, every direction  *)
(* is one of the six axis directions and every rotation matrix is an       *)
(* integer matrix.  The uniform variates of numpy's RandomState are drawn  *)
(* from the lattice (k1/4, k2/4, k3/2), on which the rotation recipe of    *)
(* rand_rotation_matrix is exact.                                          *)
(***************************************************************************)
EXTENDS Integers, Sequences, FiniteSets, TLC

VARIABLES
    args,       \* evaluate_event's arguments
    samples,    \* the "samples" group of the event's HDF5 file
    pc,         \* evaluate_event's position
    ra0, dec0,  \* the loaded sample columns
    dist,       \* comoving distances of the samples
    field,      \* what load_field returned: <<>> before, <<[field, info]>> after
    pos,        \* the (N, 3) position array
    val,        \* the result array
    i,          \* the trial loop's index
    rotmat,     \* the rotation matrix of the current trial
    rngSeeds,   \* the seed handed to RandomState by every trial so far
    interpCalls,\* calls of csiborgtools.field.evaluate_sky so far
    interpOut,  \* what each of those calls returned
    error,      \* the exception that ended the call ("" for none)
    ret,        \* the returned array: <<>> before the return, <<val>> after
    dirs,       \* directories that exist
    files,      \* files written: path -> the saved bundle
    run,        \* which run of evaluate_event this is (1 or 2)
    prev,       \* the first run's outcome, kept by the caller
    bias,       \* bias_from_density: the call and its outcome
    pathq,      \* Paths.evaluated_field: the call and its outcome
    lef,        \* load_event_field: its files, locals and outcome
    sky,        \* rotate_radec: the call and its outcome
    rrm,        \* rand_rotation_matrix: the call, its draw and its outcome
    rd          \* the readers of evaluated-field files: the call and its outcome

vars == <<args, samples, pc, ra0, dec0, dist, field, pos, val, i, rotmat,
          rngSeeds, interpCalls, interpOut, error, ret, dirs, files, run, prev,
          bias, pathq, lef, sky, rrm, rd>>

evalVars == <<args, samples, pc, ra0, dec0, dist, field, pos, val, i, rotmat,
              rngSeeds, interpCalls, interpOut, error, ret, run, prev>>
fsVars == <<dirs, files>>

---------------------------------------------------------------------------
(* Bounds of the model. *)

\* The largest trial count nrot tried.
MaxRot == 2
\* The number of posterior samples N.
NSamples == 2

---------------------------------------------------------------------------
(* Python values. *)

\* None, the int n, the float h/2 (h counts halves: PyFloat(5) is 2.5), and
\* float("nan").
None == [tag |-> "none"]
PyInt(n) == [tag |-> "int", v |-> n]
PyFloat(h) == [tag |-> "float", h |-> h]
PyNaN == [tag |-> "nan"]

\* x > 0 for a Python number: False for a NaN.
Positive(x) == CASE x.tag = "int" -> x.v > 0
                 [] x.tag = "float" -> x.h > 0
                 [] OTHER -> FALSE

\* numpy.nan in an array cell is <<>>; a number x is <<x>>.
NaN == <<>>
Num(x) == <<x>>

Range(s) == {s[k] : k \in DOMAIN s}

---------------------------------------------------------------------------
(* Trigonometry on quarter turns. *)

\* numpy.pi, in quarter turns.
Pi == 2
HalfPi == Pi \div 2

Cos(a) == CASE a % 4 = 0 -> 1
            [] a % 4 = 1 -> 0
            [] a % 4 = 2 -> 0 - 1
            [] a % 4 = 3 -> 0

Sin(a) == CASE a % 4 = 0 -> 0
            [] a % 4 = 1 -> 1
            [] a % 4 = 2 -> 0
            [] a % 4 = 3 -> 0 - 1

\* numpy.arccos on {-1, 0, 1}: a colatitude in [0, pi].
ArcCos(c) == HalfPi * (1 - c)

\* numpy.arctan2(y, x) on the axes: a longitude in (-pi, pi]; arctan2(0, 0) = 0.
ArcTan2(y, x) == CASE y = 0 /\ x >= 0 -> 0
                   [] y > 0 /\ x = 0 -> HalfPi
                   [] y = 0 /\ x < 0 -> Pi
                   [] y < 0 /\ x = 0 -> 0 - HalfPi

\* The square root of a perfect square.
Sqrt(n) == CHOOSE r \in 0..n : r * r = n

---------------------------------------------------------------------------
(* 3x3 matrices, as sequences of rows. *)

Eye3 == <<<<1, 0, 0>>, <<0, 1, 0>>, <<0, 0, 1>>>>

MatMul(A, B) ==
    [r \in 1..3 |-> [c \in 1..3 |->
        A[r][1] * B[1][c] + A[r][2] * B[2][c] + A[r][3] * B[3][c]]]

MatSub(A, B) == [r \in 1..3 |-> [c \in 1..3 |-> A[r][c] - B[r][c]]]

Transpose(A) == [r \in 1..3 |-> [c \in 1..3 |-> A[c][r]]]

MatVec(A, v) ==
    [r \in 1..3 |-> A[r][1] * v[1] + A[r][2] * v[2] + A[r][3] * v[3]]

---------------------------------------------------------------------------
(* gwlss/sky.py *)

\* The variates numpy's RandomState can return: <<k1, k2, k3>> stands for
\* the uniform draws (k1/4, k2/4, k3/2), each in [0, 1).
Draws == {<<k1, k2, k3>> : k1 \in 0..3, k2 \in 0..3, k3 \in 0..1}

\* The Mersenne Twister's first three variates for an integer seed: a fixed
\* function of the seed.
MT19937(s) == <<(s + 1) % 4, (3 * s + 2) % 4, s % 2>>

\* A faulty variant, for comparison: the generator ignores its seed.
RandomStateUnseeded(seed) == Draws

\* gen = numpy.random.RandomState(seed); gen.uniform(size=(3,)): the draws
\* the call can return.  Without a seed the generator is seeded from the
\* operating system's entropy.
RandomStateUniform(seed) ==
    IF seed = None THEN Draws ELSE {MT19937(seed.v)}

\* numpy.outer(V, V) for V = (sin(phi) sqrt(z), cos(phi) sqrt(z), sqrt(2 - z)),
\* with phi = u2 * 2 * pi and z = u3 * 2 * deflection; the products of the
\* entries of V are formed under one square root, which is exact.
OuterVV(deflection, draw) ==
    LET phi == draw[2]
        z   == draw[3] * deflection
        sp  == Sin(phi)
        cp  == Cos(phi)
        rz  == Sqrt(z * (2 - z))
    IN  <<<<sp * sp * z,  sp * cp * z,  sp * rz>>,
          <<cp * sp * z,  cp * cp * z,  cp * rz>>,
          <<sp * rz,      cp * rz,      2 - z>>>>

\* A faulty variant, for comparison: the identity is not subtracted from V V^T.
RandRotationMatrixNoReflection(deflection, draw) ==
    LET theta == draw[1] * deflection
        st    == Sin(theta)
        ct    == Cos(theta)
        R     == <<<<ct, st, 0>>, <<0 - st, ct, 0>>, <<0, 0, 1>>>>
    IN  MatMul(OuterVV(deflection, draw), R)

\* rand_rotation_matrix(deflection, seed) for the draw the generator made.
\* theta = u1 * 2 * deflection * pi; M = (V V^T - I) R(theta).
RandRotationMatrix(deflection, draw) ==
    LET theta == draw[1] * deflection
        st    == Sin(theta)
        ct    == Cos(theta)
        R     == <<<<ct, st, 0>>, <<0 - st, ct, 0>>, <<0, 0, 1>>>>
    IN  MatMul(MatSub(OuterVV(deflection, draw), Eye3), R)

\* healpy.rotator.dir2vec(theta, phi): colatitude and longitude to a vector.
Dir2Vec(theta, phi) ==
    <<Sin(theta) * Cos(phi), Sin(theta) * Sin(phi), Cos(theta)>>

\* healpy.rotator.vec2dir: a unit vector to <<colatitude, longitude>>.
Vec2Dir(v) == <<ArcCos(v[3]), ArcTan2(v[2], v[1])>>

\* healpy.rotator.rotateDirection(rotmat, theta, phi).
RotateDirection(M, theta, phi) == Vec2Dir(MatVec(M, Dir2Vec(theta, phi)))

\* A faulty variant, for comparison: the colatitude returned is not shifted back to a declination.
RotateRadec1NoShift(ra, dec, M) ==
    LET out == RotateDirection(M, ra - Pi, HalfPi - dec)
    IN  <<out[2] + Pi, out[1]>>

\* rotate_radec for one sample: <<ra_rot, dec_rot>>.  The first angle handed
\* to rotateDirection is ra - pi and the second pi/2 - dec; the first angle
\* returned becomes dec_rot and the second ra_rot.
RotateRadec1(ra, dec, M) ==
    LET out == RotateDirection(M, ra - Pi, HalfPi - dec)
    IN  <<out[2] + Pi, out[1] - HalfPi>>

\* rotate_radec on arrays: <<ra_rot, dec_rot>>, two new arrays.
RotateRadec(ra, dec, M) ==
    <<[n \in DOMAIN ra |-> RotateRadec1(ra[n], dec[n], M)[1]],
      [n \in DOMAIN ra |-> RotateRadec1(ra[n], dec[n], M)[2]]>>

---------------------------------------------------------------------------
(* Strings are sequences of tokens; a digit is a token of its own. *)

DigitChars == <<"0", "1", "2", "3", "4", "5", "6", "7", "8", "9">>

RECURSIVE NatStr(_)
NatStr(n) == IF n < 10 THEN <<DigitChars[n + 1]>>
             ELSE NatStr(n \div 10) \o <<DigitChars[(n % 10) + 1]>>

\* str(n) for an int.
IntStr(n) == IF n < 0 THEN <<"-">> \o NatStr(0 - n) ELSE NatStr(n)

\* str(float(x)) for x = h/2 >= 0.
FloatStr(h) == NatStr(h \div 2) \o <<".">> \o (IF h % 2 = 0 THEN <<"0">> ELSE <<"5">>)

Zeros(k) == [j \in 1..k |-> "0"]

\* str.zfill(w): zeros on the left up to width w, after a sign.
ZFill(s, w) ==
    IF Len(s) >= w THEN s
    ELSE IF s # <<>> /\ Head(s) = "-"
         THEN <<"-">> \o Zeros(w - Len(s)) \o Tail(s)
         ELSE Zeros(w - Len(s)) \o s

\* str.replace(old, new) for a one-token old: every occurrence is replaced.
RECURSIVE Replace(_, _, _)
Replace(s, old, new) ==
    IF s = <<>> THEN <<>>
    ELSE (IF Head(s) = old THEN new ELSE <<Head(s)>>) \o Replace(Tail(s), old, new)

\* os.path.join of a directory and a relative name.
Join(d, name) == d \o <<"/">> \o name

---------------------------------------------------------------------------
(* gwlss/paths.py *)

\* paths_glamdring["dumpdir"]
DumpDir == <<"/mnt/extraspace/rstiskalek/GWLSS/dumpdir">>

\* fdir of Paths.evaluated_field
EvaluatedDir == Join(DumpDir, <<"evaluated">>)

\* A faulty variant, for comparison: the simulation index is not padded.
EvaluatedFieldNameNoPad(event, kind, nsim, grid, MAS, is_rand, in_rsp, smooth_scale) ==
    LET event2 == IF is_rand THEN <<"rand_">> \o event ELSE event
        kind2  == IF in_rsp THEN kind \o <<"_rsp">> ELSE kind
        fname  == event2 \o <<"_">> \o kind2 \o <<"_">> \o MAS \o <<"_">>
                  \o IntStr(nsim) \o <<"_grid">> \o IntStr(grid) \o <<".npz">>
    IN  IF smooth_scale # None /\ Positive(smooth_scale)
        THEN LET h == IF smooth_scale.tag = "int" THEN 2 * smooth_scale.v
                      ELSE smooth_scale.h
             IN  Replace(fname, ".npz", <<"smooth">> \o FloatStr(h) \o <<".npz">>)
        ELSE fname

\* The file name Paths.evaluated_field builds.
EvaluatedFieldName(event, kind, nsim, grid, MAS, is_rand, in_rsp, smooth_scale) ==
    LET event2 == IF is_rand THEN <<"rand_">> \o event ELSE event
        kind2  == IF in_rsp THEN kind \o <<"_rsp">> ELSE kind
        fname  == event2 \o <<"_">> \o kind2 \o <<"_">> \o MAS \o <<"_">>
                  \o ZFill(IntStr(nsim), 5) \o <<"_grid">> \o IntStr(grid) \o <<".npz">>
    IN  IF smooth_scale # None /\ Positive(smooth_scale)
        THEN LET h == IF smooth_scale.tag = "int" THEN 2 * smooth_scale.v
                      ELSE smooth_scale.h
             IN  Replace(fname, ".npz", <<"smooth">> \o FloatStr(h) \o <<".npz">>)
        ELSE fname

\* The path Paths.evaluated_field returns.
EvaluatedFieldPath(event, kind, nsim, grid, MAS, is_rand, in_rsp, smooth_scale) ==
    Join(EvaluatedDir,
         EvaluatedFieldName(event, kind, nsim, grid, MAS, is_rand, in_rsp, smooth_scale))

\* A faulty variant, for comparison: every event name opens the file.
LoadEventAny(event, group) == [err |-> "", samples |-> <<group>>]

\* Paths.load_event: the samples group, or a KeyError.
LoadEvent(event, group) ==
    IF event = <<"GW170817">> THEN [err |-> "", samples |-> <<group>>]
    ELSE [err |-> "KeyError", samples |-> <<>>]

---------------------------------------------------------------------------
(* scripts/interp.py: load_field and the collaborators of evaluate_event *)

\* load_field(kind, nsim, grid, MAS, in_rsp, smooth_scale): the field as a
\* record of what was loaded and what was done to it, with its info, or the
\* error raised.  The flag isoverdensity is bound only when the kind is
\* "overdensity"; reading it unbound raises UnboundLocalError.
LoadField(kind, nsim, grid, MAS, in_rsp, smooth_scale) ==
    LET scale  == IF smooth_scale = None THEN PyInt(0) ELSE smooth_scale
        isover == kind = <<"overdensity">>
        kind2  == IF isover THEN <<"density">> ELSE kind
        local  == kind2 = <<"density">> /\ Positive(scale)
        loaded == [kind |-> kind2, MAS |-> MAS, grid |-> grid, nsim |-> nsim,
                   in_rsp |-> in_rsp,
                   file_scale |-> IF local THEN PyInt(0) ELSE scale,
                   smoothed_here |-> local]
    IN  IF isover
        THEN [err |-> "",
              field |-> [src |-> loaded, normalised |-> TRUE],
              info |-> [mean |-> "mean(field)", std |-> "std(field)"]]
        ELSE [err |-> "UnboundLocalError"]

\* astropy's comoving_distance for a redshift in hundredths: linear at low
\* redshift, about 42 Mpc per 0.01.
ComovingDistance(z) == 42 * z

\* Half the side of the simulation box, in Mpc.
BoxReach == 338

\* csiborgtools.field.evaluate_sky(field, pos): one value per row of pos, a
\* deterministic function of the field and the position; NaN where the
\* position lies outside the box.
EvaluateSky(f, p) ==
    [n \in DOMAIN p |->
        IF p[n][1] > BoxReach THEN NaN
        ELSE Num((f.src.nsim + p[n][1] + p[n][2] + 2 * p[n][3]) % 5)]

---------------------------------------------------------------------------
(* scripts/interp.py: evaluate_event *)

KnownEvent == <<"GW170817">>
Events == {KnownEvent, <<"GW150914">>}
Kinds == {<<"overdensity">>, <<"density">>, <<"potential">>}

\* The posterior sample of index k: ra and dec in quarter turns, redshift in
\* hundredths.
Sample(k) == [ra |-> k % 4, dec |-> (k % 3) - 1,
              redshift |-> IF k % 4 = 3 THEN 9 ELSE 1 + (k % 2)]

\* The sample groups tried: columns of NSamples entries.
SampleGroups ==
    {[ra       |-> [n \in 1..NSamples |-> Sample(b + n).ra],
      dec      |-> [n \in 1..NSamples |-> Sample(b + n).dec],
      redshift |-> [n \in 1..NSamples |-> Sample(b + n).redshift]] : b \in 0..2}

\* The trial counts tried: absent, an int from -1 to MaxRot, the float 2.5.
NRots == {None, PyFloat(5)} \cup {PyInt(k) : k \in (0 - 1)..MaxRot}

Seeds == {None, PyInt(0), PyInt(1)}

ArgSets ==
    [event : Events, kind : Kinds, nsim : {7444}, grid : {512},
     smooth_scale : {None, PyFloat(2)}, to_save : BOOLEAN,
     nrot : NRots, seed : Seeds]

\* No array yet.
NoArray == <<>>

InitEval ==
    /\ args \in ArgSets
    /\ samples \in SampleGroups
    /\ pc = "start"
    /\ ra0 = NoArray /\ dec0 = NoArray /\ dist = NoArray
    /\ field = <<>>
    /\ pos = NoArray /\ val = NoArray
    /\ i = 0
    /\ rotmat = <<>>
    /\ rngSeeds = <<>>
    /\ interpCalls = 0
    /\ interpOut = <<>>
    /\ error = ""
    /\ ret = <<>>
    /\ run = 1
    /\ prev = <<>>

\* The value of a variable its specification does not use.
Idle == [idle |-> TRUE]

InitFs == dirs = {} /\ files = {}

Init ==
    /\ InitEval /\ InitFs
    /\ bias = Idle /\ pathq = Idle /\ lef = Idle /\ sky = Idle /\ rrm = Idle /\ rd = Idle
    /\ rrm = Idle /\ rd = Idle

Fail(e) == pc' = "failed" /\ error' = e

\* Lines 116-120: load the event and its sample columns.
EvLoadEvent ==
    /\ pc = "start"
    /\ LET r == LoadEvent(args.event, samples) IN
        IF r.err # ""
        THEN /\ Fail(r.err)
             /\ UNCHANGED <<ra0, dec0, dist>>
        ELSE /\ ra0' = r.samples[1].ra
             /\ dec0' = r.samples[1].dec
             /\ dist' = [n \in DOMAIN r.samples[1].redshift |->
                            ComovingDistance(r.samples[1].redshift[n])]
             /\ pc' = "load_field"
             /\ error' = error
    /\ UNCHANGED <<args, samples, field, pos, val, i, rotmat, rngSeeds,
                   interpCalls, interpOut, ret, run, prev, fsVars, bias, pathq, lef, sky, rrm, rd>>

\* Lines 123-130: load the field, then stack the position array.
EvLoadField ==
    /\ pc = "load_field"
    /\ LET r == LoadField(args.kind, args.nsim, args.grid, <<"PCS">>, TRUE,
                          args.smooth_scale) IN
        IF r.err # ""
        THEN /\ Fail(r.err)
             /\ UNCHANGED <<field, pos>>
        ELSE /\ field' = <<[field |-> r.field, info |-> r.info]>>
             /\ pos' = [n \in DOMAIN ra0 |-> <<dist[n], ra0[n], dec0[n]>>]
             /\ pc' = "evaluate"
             /\ error' = error
    /\ UNCHANGED <<args, samples, ra0, dec0, dist, val, i, rotmat, rngSeeds,
                   interpCalls, interpOut, ret, run, prev, fsVars, bias, pathq, lef, sky, rrm, rd>>

\* Lines 132-137: evaluate straight away, or check nrot and allocate the
\* (nrot, N) array of NaN.  numpy.full raises ValueError for a negative
\* dimension.
EvBranch ==
    /\ pc = "evaluate"
    /\ IF args.nrot = None
       THEN /\ val' = EvaluateSky(field[1].field, pos)
            /\ interpCalls' = interpCalls + 1
            /\ interpOut' = Append(interpOut, EvaluateSky(field[1].field, pos))
            /\ pc' = "save"
            /\ error' = error
       ELSE IF args.nrot.tag # "int"
       THEN /\ Fail("AssertionError")
            /\ UNCHANGED <<val, interpCalls, interpOut>>
       ELSE IF args.nrot.v < 0
       THEN /\ Fail("ValueError")
            /\ UNCHANGED <<val, interpCalls, interpOut>>
       ELSE /\ val' = [r \in 1..args.nrot.v |-> [n \in DOMAIN ra0 |-> NaN]]
            /\ pc' = IF args.nrot.v = 0 THEN "save" ELSE "loop"
            /\ error' = error
            /\ UNCHANGED <<interpCalls, interpOut>>
    /\ i' = 0
    /\ UNCHANGED <<args, samples, ra0, dec0, dist, field, pos, rotmat, rngSeeds,
                   ret, run, prev, fsVars, bias, pathq, lef, sky, rrm, rd>>

\* A faulty variant, for comparison: every trial writes row 0.
TrialRowFirst(k) == 1

\* The row of val trial k (from 0) writes, counted from 1.
TrialRow(k) == k + 1

\* A faulty variant, for comparison: the trial rotates the positions the last trial left in pos.
TrialInputFromPos(r, d, p) ==
    <<[n \in DOMAIN p |-> p[n][2]], [n \in DOMAIN p |-> p[n][3]]>>

\* The columns a trial hands to rotate_radec: ra0 and dec0.
TrialInput(r, d, p) == <<r, d>>

\* Lines 138-144: one trial of the loop.
EvTrial ==
    /\ pc = "loop"
    /\ \E draw \in RandomStateUniform(args.seed) :
        LET M   == RandRotationMatrix(1, draw)
            inp == TrialInput(ra0, dec0, pos)
            rot == RotateRadec(inp[1], inp[2], M)
            p2  == [n \in DOMAIN pos |-> <<pos[n][1], rot[1][n], rot[2][n]>>]
        IN  /\ rotmat' = M
            /\ pos' = p2
            /\ val' = [val EXCEPT ![TrialRow(i)] = EvaluateSky(field[1].field, p2)]
            /\ interpOut' = Append(interpOut, EvaluateSky(field[1].field, p2))
    /\ rngSeeds' = Append(rngSeeds, args.seed)
    /\ interpCalls' = interpCalls + 1
    /\ i' = i + 1
    /\ pc' = IF i + 1 = args.nrot.v THEN "save" ELSE "loop"
    /\ UNCHANGED <<args, samples, ra0, dec0, dist, field, error, ret, run, prev,
                   fsVars, bias, pathq, lef, sky, rrm, rd>>

\* numpy.savez(fout, values=val, mean=..., std=...): the file's content.
Bundle(v, info) == [values |-> v, mean |-> info.mean, std |-> info.std]

\* Lines 146-154: save the result if asked to, and return it.
EvSave ==
    /\ pc = "save"
    /\ IF args.to_save
       THEN LET fout == EvaluatedFieldPath(KnownEvent, args.kind, args.nsim, args.grid,
                                           <<"PCS">>, args.nrot # None, TRUE,
                                           args.smooth_scale)
            IN  /\ dirs' = dirs \cup {EvaluatedDir}
                /\ files' = {f \in files : f.path # fout}
                            \cup {[path |-> fout, data |-> Bundle(val, field[1].info)]}
       ELSE UNCHANGED fsVars
    /\ ret' = <<val>>
    /\ pc' = "done"
    /\ UNCHANGED <<args, samples, ra0, dec0, dist, field, pos, val, i, rotmat,
                   rngSeeds, interpCalls, interpOut, error, run, prev, bias, pathq,
                   lef, sky, rrm, rd>>

\* The caller repeats a seeded call, with the same arguments and the same
\* files, to reproduce it; what the first call returned is kept aside.
EvRerun ==
    /\ pc \in {"done", "failed"}
    /\ run = 1
    /\ args.seed # None
    /\ run' = 2
    /\ prev' = <<[pc |-> pc, error |-> error, ret |-> ret]>>
    /\ pc' = "start"
    /\ ra0' = NoArray /\ dec0' = NoArray /\ dist' = NoArray
    /\ field' = <<>>
    /\ pos' = NoArray /\ val' = NoArray
    /\ i' = 0
    /\ rotmat' = <<>>
    /\ rngSeeds' = <<>>
    /\ interpCalls' = 0
    /\ interpOut' = <<>>
    /\ error' = ""
    /\ ret' = <<>>
    /\ UNCHANGED <<args, samples, fsVars, bias, pathq, lef, sky, rrm, rd>>

Next ==
    \/ EvLoadEvent
    \/ EvLoadField
    \/ EvBranch
    \/ EvTrial
    \/ EvSave
    \/ EvRerun

Spec == Init /\ [][Next]_vars

---------------------------------------------------------------------------
(* Claims about evaluate_event, under Spec. *)

SeededRun == args.seed # None
NanRow(row) == \A n \in DOMAIN row : row[n] = NaN
NanFree(row) == \A n \in DOMAIN row : row[n] # NaN
AngleCols(p) == <<[n \in DOMAIN p |-> p[n][2]], [n \in DOMAIN p |-> p[n][3]]>>

\* C1: in a seeded run with two or more trials, no two trials hand the same
\* seed to the generator, so no two trials are forced to the same draw and
\* the same rotation matrix.
C1_FreshRotationPerTrial ==
    SeededRun =>
        \A a, b \in DOMAIN rngSeeds : a # b => rngSeeds[a] # rngSeeds[b]

\* C2: a seeded call repeated with the same arguments and files returns what
\* the first call returned.
C2_SeededRerunIdentical ==
    (run = 2 /\ pc \in {"done", "failed"} /\ SeededRun) =>
        /\ prev[1].pc = pc
        /\ prev[1].error = error
        /\ prev[1].ret = ret

C2_Witness ==
    /\ run = 2 /\ pc = "done" /\ SeededRun
    /\ args.nrot = PyInt(MaxRot)
    /\ prev[1].ret = ret
    /\ \E r \in DOMAIN ret[1] : NanFree(ret[1][r])

\* C3: a call whose nrot is given and is not a positive int returns no array
\* and writes no file, and once the field is loaded it ends with an
\* invalid-argument error.
C3_NrotMustBePositiveInt ==
    (args.nrot # None /\ (args.nrot.tag # "int" \/ args.nrot.v <= 0)) =>
        /\ pc # "done"
        /\ ret = <<>>
        /\ files = {}
        /\ (pc = "failed" /\ field # <<>>) => error \in {"AssertionError", "ValueError"}

C5_OnlyAnglesOverwritten ==
    /\ ra0 # NoArray => ra0 = samples.ra /\ dec0 = samples.dec
    /\ pos # NoArray =>
        \A n \in DOMAIN pos : pos[n][1] = ComovingDistance(samples.redshift[n])
    /\ (pos # NoArray /\ i = 0) => AngleCols(pos) = <<samples.ra, samples.dec>>
    /\ i >= 1 => AngleCols(pos) = RotateRadec(samples.ra, samples.dec, rotmat)

C5_Witness ==
    /\ i = MaxRot /\ pc = "done"
    /\ AngleCols(pos) # <<samples.ra, samples.dec>>
    /\ ra0 = samples.ra /\ dec0 = samples.dec

\* C7: load_event raises KeyError for every event but the known one, and a
\* call for such an event ends with that error before a field is loaded, the
\* interpolator called, a directory created or a file written.
C7_UnknownEventFailsFast ==
    /\ \A e \in Events \ {KnownEvent} : LoadEvent(e, samples).err = "KeyError"
    /\ args.event # KnownEvent =>
        /\ pc \in {"start", "failed"}
        /\ pc = "failed" => error = "KeyError"
        /\ ra0 = NoArray /\ field = <<>> /\ val = NoArray
        /\ interpCalls = 0
        /\ dirs = {} /\ files = {}
        /\ ret = <<>>

C7_Witness ==
    /\ args.event # KnownEvent /\ pc = "failed" /\ error = "KeyError"
    /\ args.to_save /\ args.nrot = PyInt(MaxRot)

\* load_field has been called and has ended, one way or the other.
LoadFieldCalled == args.event = KnownEvent /\ pc \notin {"start", "load_field"}

\* C14: load_field returns a (field, info) pair for every field kind; the
\* field is normalised to an overdensity exactly when the kind asked for is
\* "overdensity", for which the density field is loaded; it is smoothed
\* locally only when it is a density field and smooth_scale > 0.
C14_LoadFieldReturnsForEveryKind ==
    LoadFieldCalled =>
        /\ error # "UnboundLocalError"
        /\ field # <<>>
        /\ field[1].field.normalised <=> args.kind = <<"overdensity">>
        /\ args.kind = <<"overdensity">> => field[1].field.src.kind = <<"density">>
        /\ field[1].field.src.smoothed_here =>
               /\ field[1].field.src.kind = <<"density">>
               /\ args.smooth_scale # None /\ Positive(args.smooth_scale)

---------------------------------------------------------------------------
(* gwlss/importance_sampler.py: bias_from_density *)

\* Floats of the bias models: 0.0, 2^e, -2^e, nan.  A density d stands for
\* d * rho_m, so that density / rho_m is d itself.
FZero == [k |-> "zero"]
FPow2(e) == [k |-> "pow2", e |-> e]
FNeg(e) == [k |-> "neg", e |-> e]
FNaN == [k |-> "nan"]

\* The largest binary exponent of a finite double.
DoubleMaxExp == 1023
\* Below this exponent a double is 0.0.
DoubleMinExp == 0 - 1074

\* 2^e as a double: overflow is the caller's to report, underflow is 0.0.
RoundPow2(neg, e) ==
    IF e < DoubleMinExp THEN FZero ELSE IF neg THEN FNeg(e) ELSE FPow2(e)

\* x ** beta for Python floats: [err, value].  0.0 to a negative power raises
\* ZeroDivisionError and a finite result out of range raises OverflowError.
FloatPow(x, beta) ==
    IF beta.tag = "nan"
    THEN [err |-> "", value |-> IF x = FPow2(0) THEN FPow2(0) ELSE FNaN]
    ELSE IF beta.v = 0
    THEN [err |-> "", value |-> FPow2(0)]
    ELSE CASE x.k = "nan"  -> [err |-> "", value |-> FNaN]
           [] x.k = "zero" -> IF beta.v < 0 THEN [err |-> "ZeroDivisionError"]
                              ELSE [err |-> "", value |-> FZero]
           [] OTHER        -> IF x.e * beta.v > DoubleMaxExp
                              THEN [err |-> "OverflowError"]
                              ELSE [err |-> "",
                                    value |-> RoundPow2(x.k = "neg" /\ beta.v % 2 = 1,
                                                        x.e * beta.v)]

\* 1 / (1 + exp(-x)) for x = (log(d) - a_t) / t, with a_t counted in units of
\* log 2: numpy returns -inf for log(0) and nan for the log of a negative
\* number, and raises nothing.
Sigmoid(d, a_t, t) ==
    CASE d.k = "zero" -> FZero
      [] d.k \in {"neg", "nan"} -> FNaN
      [] a_t.tag = "nan" -> FNaN
      [] OTHER -> IF d.e - a_t.v = 0 THEN [k |-> "half"]
                  ELSE [k |-> "logistic", num |-> d.e - a_t.v, den |-> t.v]

\* A faulty variant, for comparison: t is not checked.
BiasFromDensityNoTCheck(density, bias_type, bias_params) ==
    IF bias_type = "simple_bias"
    THEN IF Len(bias_params) # 1
         THEN [err |-> "AssertionError", computed |-> FALSE]
         ELSE LET r == FloatPow(density, bias_params[1])
              IN  IF r.err # "" THEN [err |-> r.err, computed |-> TRUE]
                  ELSE [err |-> "", computed |-> TRUE, value |-> r.value]
    ELSE IF bias_type = "sigmoid_bias"
    THEN IF Len(bias_params) # 2
         THEN [err |-> "AssertionError", computed |-> FALSE]
         ELSE [err |-> "", computed |-> TRUE,
               value |-> IF Positive(bias_params[2])
                         THEN Sigmoid(density, bias_params[1], bias_params[2])
                         ELSE FNaN]
    ELSE [err |-> "ValueError", computed |-> FALSE]

\* bias_from_density: the error raised ("" for none), whether the formula
\* was evaluated before that, and the value returned.
BiasFromDensity(density, bias_type, bias_params) ==
    IF bias_type = "simple_bias"
    THEN IF Len(bias_params) # 1
         THEN [err |-> "AssertionError", computed |-> FALSE]
         ELSE LET r == FloatPow(density, bias_params[1])
              IN  IF r.err # "" THEN [err |-> r.err, computed |-> TRUE]
                  ELSE [err |-> "", computed |-> TRUE, value |-> r.value]
    ELSE IF bias_type = "sigmoid_bias"
    THEN IF Len(bias_params) # 2
         THEN [err |-> "AssertionError", computed |-> FALSE]
         ELSE IF ~Positive(bias_params[2])
         THEN [err |-> "AssertionError", computed |-> FALSE]
         ELSE [err |-> "", computed |-> TRUE,
               value |-> Sigmoid(density, bias_params[1], bias_params[2])]
    ELSE [err |-> "ValueError", computed |-> FALSE]

\* The longest parameter list tried.
MaxParams == 3

Densities == {FZero, FNeg(0), FNaN} \cup {FPow2(e) : e \in {0 - 1, 0, 1, 600}}
BiasTypes == {"simple_bias", "sigmoid_bias", "linear_bias"}
ParamValues == {PyNaN} \cup {PyInt(v) : v \in (0 - 1)..2}
ParamLists == UNION {[1..n -> ParamValues] : n \in 0..MaxParams}

BiasCalls == [density : Densities, bias_type : BiasTypes, bias_params : ParamLists]

\* The variables of evaluate_event and of the file system, in the
\* specifications of the other functions.
IdleEval ==
    /\ args = Idle /\ samples = Idle /\ pc = "idle"
    /\ ra0 = NoArray /\ dec0 = NoArray /\ dist = NoArray
    /\ field = <<>> /\ pos = NoArray /\ val = NoArray
    /\ i = 0 /\ rotmat = <<>> /\ rngSeeds = <<>>
    /\ interpCalls = 0 /\ interpOut = <<>>
    /\ error = "" /\ ret = <<>> /\ run = 1 /\ prev = <<>>

InitBias ==
    /\ IdleEval /\ InitFs
    /\ bias \in {[call |-> c, out |-> <<>>] : c \in BiasCalls}
    /\ pathq = Idle /\ lef = Idle /\ sky = Idle /\ rrm = Idle /\ rd = Idle

\* One call of bias_from_density.
BiasCall ==
    /\ bias.out = <<>>
    /\ bias' = [bias EXCEPT !.out =
                    <<BiasFromDensity(bias.call.density, bias.call.bias_type,
                                      bias.call.bias_params)>>]
    /\ UNCHANGED <<evalVars, fsVars, pathq, lef, sky, rrm, rd>>

NextBias == BiasCall

SpecBias == InitBias /\ [][NextBias]_vars

\* The inputs the claim names as invalid.
BiasBadCount(c) ==
    \/ c.bias_type = "simple_bias" /\ Len(c.bias_params) # 1
    \/ c.bias_type = "sigmoid_bias" /\ Len(c.bias_params) # 2
BiasBadT(c) ==
    /\ c.bias_type = "sigmoid_bias" /\ Len(c.bias_params) = 2
    /\ c.bias_params[2].tag = "int" /\ c.bias_params[2].v <= 0
BiasNaNT(c) ==
    /\ c.bias_type = "sigmoid_bias" /\ Len(c.bias_params) = 2
    /\ c.bias_params[2].tag = "nan"
BiasUnknown(c) == c.bias_type \notin {"simple_bias", "sigmoid_bias"}
\* Inputs on which Python's float power itself raises.
BiasPowRaises(c) ==
    /\ c.bias_type = "simple_bias" /\ Len(c.bias_params) = 1
    /\ c.bias_params[1].tag = "int"
    /\ \/ c.density.k = "zero" /\ c.bias_params[1].v < 0
       \/ c.density.k \in {"pow2", "neg"}
          /\ c.density.e * c.bias_params[1].v > DoubleMaxExp

\* C6 as claimed: AssertionError before any computation for a wrong
\* parameter count or t <= 0, ValueError for an unknown type, and a value
\* with no error for every other input (a NaN t is read as one of the
\* claim's invalid t, not as another input).
C6_BiasErrorsAsClaimed ==
    bias # Idle /\ bias.out # <<>> =>
        LET c == bias.call
            o == bias.out[1]
        IN  /\ (BiasBadCount(c) \/ BiasBadT(c)) =>
                o.err = "AssertionError" /\ ~o.computed
            /\ BiasUnknown(c) => o.err = "ValueError" /\ ~o.computed
            /\ ~(BiasBadCount(c) \/ BiasBadT(c) \/ BiasNaNT(c) \/ BiasUnknown(c)) =>
                o.err = ""

\* C6, amended: AssertionError before any computation exactly for a wrong
\* parameter count or a t that is not greater than 0 (t <= 0 or NaN),
\* ValueError exactly for an unknown type; every other input returns a
\* value, unless the float power of simple_bias itself raises
\* (ZeroDivisionError for a zero density and a negative exponent,
\* OverflowError for a result out of range).
C6_BiasErrors ==
    bias # Idle /\ bias.out # <<>> =>
        LET c == bias.call
            o == bias.out[1]
        IN  /\ (BiasBadCount(c) \/ BiasBadT(c) \/ BiasNaNT(c)) <=>
                o.err = "AssertionError"
            /\ BiasUnknown(c) <=> o.err = "ValueError"
            /\ o.err \in {"AssertionError", "ValueError"} => ~o.computed
            /\ BiasPowRaises(c) <=> o.err \in {"ZeroDivisionError", "OverflowError"}
            /\ o.err = "" <=>
                ~(BiasBadCount(c) \/ BiasBadT(c) \/ BiasNaNT(c) \/ BiasUnknown(c)
                  \/ BiasPowRaises(c))
            /\ o.err = "" => o.computed /\ "value" \in DOMAIN o

C6_Witness ==
    /\ bias # Idle /\ bias.out # <<>>
    /\ BiasBadT(bias.call)
    /\ bias.out[1].err = "AssertionError"

---------------------------------------------------------------------------
(* gwlss/paths.py: Paths.evaluated_field, called on its own *)

PathEvents == {KnownEvent, <<"S190425z", ".npz">>}
PathScales == {None, PyNaN, PyInt(0), PyInt(1), PyFloat(5), PyFloat(0 - 2)}

PathCalls ==
    [event : PathEvents, kind : Kinds, nsim : {0 - 5, 12, 7444, 123456},
     grid : {256, 512}, MAS : {<<"PCS">>, <<"CIC">>},
     is_rand : BOOLEAN, in_rsp : BOOLEAN, smooth_scale : PathScales]

\* The directory of the evaluated fields may be there from an earlier run.
InitPaths ==
    /\ IdleEval
    /\ dirs \in {{}, {EvaluatedDir}} /\ files = {}
    /\ pathq \in {[call |-> <<c>>, out |-> <<>>] : c \in PathCalls}
    /\ bias = Idle /\ lef = Idle /\ sky = Idle /\ rrm = Idle /\ rd = Idle

\* One call of Paths.evaluated_field: the directory is made if it is not
\* there, and the path is returned.
PathsEvaluatedField ==
    /\ pathq.out = <<>>
    /\ LET c == pathq.call[1] IN
        pathq' = [pathq EXCEPT !.out =
                    <<EvaluatedFieldPath(c.event, c.kind, c.nsim, c.grid, c.MAS,
                                         c.is_rand, c.in_rsp, c.smooth_scale)>>]
    /\ dirs' = dirs \cup {EvaluatedDir}
    /\ UNCHANGED <<evalVars, files, bias, lef, sky, rrm, rd>>

NextPaths == PathsEvaluatedField

SpecPaths == InitPaths /\ [][NextPaths]_vars

\* The file name of a path: what follows its last separator.
RECURSIVE BaseName(_)
BaseName(path) ==
    IF "/" \notin Range(path) THEN path
    ELSE BaseName(Tail(path))

\* {n:05d}: the sign, then zeros up to a width of five, then the digits.
Format05d(n) ==
    LET digits == NatStr(IF n < 0 THEN 0 - n ELSE n)
        room   == (IF n < 0 THEN 4 ELSE 5) - Len(digits)
    IN  (IF n < 0 THEN <<"-">> ELSE <<>>)
        \o Zeros(IF room > 0 THEN room ELSE 0) \o digits

\* The scale the name carries: given and greater than 0.
Smoothed(c) == c.smooth_scale.tag \in {"int", "float"} /\ Positive(c.smooth_scale)
ScaleText(x) == IF x.tag = "int" THEN IntStr(x.v) \o <<".", "0">> ELSE FloatStr(x.h)

\* {event}_{kind}[_rsp]_{MAS}_{nsim:05d}_grid{grid}[smooth{scale}].npz
Template(c) ==
    c.event \o <<"_">> \o c.kind \o (IF c.in_rsp THEN <<"_rsp">> ELSE <<>>)
    \o <<"_">> \o c.MAS \o <<"_">> \o Format05d(c.nsim)
    \o <<"_grid">> \o IntStr(c.grid)
    \o (IF Smoothed(c) THEN <<"smooth">> \o ScaleText(c.smooth_scale) ELSE <<>>)
    \o <<".npz">>

\* No argument holds the text ".npz".
NoNpzInside(c) == ".npz" \notin Range(c.event \o c.kind \o c.MAS)

\* C8 as claimed: the file name is the template, for every combination of
\* parameters.
C8_NameIsTemplate ==
    pathq # Idle /\ pathq.out # <<>> =>
        BaseName(pathq.out[1]) = Template(pathq.call[1])

\* C8, amended: the file name is the template with "rand_" put before it
\* exactly when is_rand is true, for arguments that do not themselves hold
\* the text ".npz"; the path lies in the "evaluated" directory, which exists
\* after the call.
C8_NameIsRandTemplate ==
    pathq # Idle /\ pathq.out # <<>> =>
        LET c == pathq.call[1]
        IN  /\ NoNpzInside(c) =>
                BaseName(pathq.out[1]) =
                    (IF c.is_rand THEN <<"rand_">> ELSE <<>>) \o Template(c)
            /\ pathq.out[1] = Join(EvaluatedDir, BaseName(pathq.out[1]))
            /\ EvaluatedDir \in dirs

C8_Witness ==
    /\ pathq # Idle /\ pathq.out # <<>>
    /\ pathq.call[1].is_rand /\ pathq.call[1].in_rsp
    /\ pathq.call[1].smooth_scale = PyFloat(5)
    /\ pathq.call[1].nsim = 12
    /\ BaseName(pathq.out[1]) =
        <<"rand_", "GW170817", "_", "overdensity", "_rsp", "_", "PCS", "_",
          "0", "0", "0", "1", "2", "_grid", "5", "1", "2",
          "smooth", "2", ".", "5", ".npz">>

---------------------------------------------------------------------------
(* gwlss/utils.py: load_event_field *)

\* The simulations read.  The code reads 101, from 7444 in steps of 24.
NSims == 2
FirstSim == 7444
SimStep == 24
Nsim(n) == FirstSim + n * SimStep

\* The smoothing scales a precomputed file may list, and those asked for.
ScaleLists == {<<0, 1>>, <<0, 2>>, <<0>>, <<1, 0>>, <<0, 1, 2>>}
RequiredLists == {<<0, 1>>, <<0>>}

\* A precomputed file of simulation n: one row per sample, one column per
\* scale it lists.
Precomputed(n, scales) ==
    [smooth_scales |-> scales,
     val |-> [s \in 1..NSamples |->
                 [k \in DOMAIN scales |-> 100 * n + 10 * s + scales[k]]]]

LefCalls ==
    [event : {KnownEvent}, kind : {<<"overdensity">>}, grid : {512},
     MAS : {<<"PCS">>, <<"CIC">>}, in_rsp : BOOLEAN, smooth_scales : RequiredLists]

\* fpath of iteration n: the arguments are handed over by position, so MAS
\* lands on MAS and in_rsp on is_rand; in_rsp and smooth_scale keep their
\* defaults.
LefPath(c, n) ==
    EvaluatedFieldPath(c.event, c.kind, Nsim(n), c.grid, c.MAS, c.in_rsp, TRUE, None)

\* The files are where the loader looks for them.
InitLoad ==
    /\ IdleEval
    /\ dirs = {EvaluatedDir}
    /\ \E c \in LefCalls : \E lists \in [0..(NSims - 1) -> ScaleLists] :
        /\ files = {[path |-> LefPath(c, n), data |-> Precomputed(n, lists[n])] :
                        n \in 0..(NSims - 1)}
        /\ lef = [call |-> c, pc |-> "loop", n |-> 0, fpath |-> <<>>, loaded |-> <<>>,
                  ks |-> <<>>, out |-> <<>>, err |-> "", ret |-> <<>>]
    /\ bias = Idle /\ pathq = Idle /\ sky = Idle /\ rrm = Idle /\ rd = Idle

\* numpy.where(numpy.isin(a, b))[0]: the places of a, in order, whose entry
\* is in b.
RECURSIVE WhereIsIn(_, _, _)
WhereIsIn(a, b, k) ==
    IF k > Len(a) THEN <<>>
    ELSE (IF a[k] \in Range(b) THEN <<k>> ELSE <<>>) \o WhereIsIn(a, b, k + 1)

\* Whether iteration n checks the file's scales: `if n == 0`.
ScalesChecked(n) == n = 0

\* Lines 34-54: one iteration of the loop, and the return after the last.
LefIteration ==
    /\ lef.pc = "loop"
    /\ LET c     == lef.call
           fpath == LefPath(c, lef.n)
           found == {f \in files : f.path = fpath}
           f     == (CHOOSE x \in found : TRUE).data
           seen  == Append(lef.loaded, f)
           first == ScalesChecked(lef.n)
           ks    == IF first THEN WhereIsIn(f.smooth_scales, c.smooth_scales, 1)
                    ELSE lef.ks
           out0  == IF first
                    THEN [m \in 1..NSims |-> [s \in DOMAIN f.val |->
                             [k \in DOMAIN c.smooth_scales |-> 0]]]
                    ELSE lef.out
           stop(e, l) == lef' = [lef EXCEPT !.pc = "failed", !.err = e, !.loaded = l,
                                            !.fpath = <<fpath>>]
       IN  IF found = {} THEN stop("FileNotFoundError", lef.loaded)
           ELSE IF ~({"val", "smooth_scales"} \subseteq DOMAIN f) THEN stop("KeyError", seen)
           ELSE IF first /\ \E x \in Range(c.smooth_scales) : x \notin Range(f.smooth_scales)
           THEN stop("ValueError", seen)
           ELSE IF \E k \in Range(ks) : k > Len(f.smooth_scales)
           THEN stop("IndexError", seen)
           ELSE IF Len(ks) # Len(c.smooth_scales) \/ Len(f.val) # Len(out0[1])
           THEN stop("ValueError", seen)
           ELSE LET out1 == [out0 EXCEPT ![lef.n + 1] =
                                [s \in DOMAIN f.val |-> [k \in DOMAIN ks |-> f.val[s][ks[k]]]]]
                IN  lef' = [lef EXCEPT !.loaded = seen, !.ks = ks, !.out = out1,
                                       !.fpath = <<fpath>>,
                                       !.n = lef.n + 1,
                                       !.pc = IF lef.n + 1 = NSims THEN "done" ELSE "loop",
                                       !.ret = IF lef.n + 1 = NSims THEN <<out1>> ELSE <<>>]
    /\ dirs' = dirs \cup {EvaluatedDir}
    /\ UNCHANGED <<evalVars, files, bias, pathq, sky, rrm, rd>>

NextLoad == LefIteration

SpecLoad == InitLoad /\ [][NextLoad]_vars

\* A loaded file that lacks one of the required scales.
LacksScale(f, c) == \E x \in Range(c.smooth_scales) : x \notin Range(f.smooth_scales)

\* C9: once a file that lacks a required scale has been loaded, whichever
\* file of the loop it is, the call has failed with ValueError and returns
\* no array.
C9_MissingScaleFails ==
    lef # Idle =>
        \A m \in DOMAIN lef.loaded :
            LacksScale(lef.loaded[m], lef.call) =>
                lef.pc = "failed" /\ lef.err = "ValueError" /\ lef.ret = <<>>

\* What the code does keep: a first file that lacks a required scale fails
\* the call with ValueError before the output array is made.
FirstFileChecked ==
    (lef # Idle /\ Len(lef.loaded) >= 1 /\ LacksScale(lef.loaded[1], lef.call)) =>
        /\ lef.pc = "failed" /\ lef.err = "ValueError"
        /\ lef.out = <<>> /\ lef.ret = <<>>

\* C15: the file load_event_field asks for is that of the unrotated event in
\* the frame asked for: its name has "_rsp" exactly when in_rsp is true, has
\* the MAS asked for and the simulation's index, and never has "rand_".
C15_ReadsUnrotatedEventInFrame ==
    (lef # Idle /\ lef.fpath # <<>>) =>
        LET name == BaseName(lef.fpath[1])
        IN  /\ "_rsp" \in Range(name) <=> lef.call.in_rsp
            /\ "rand_" \notin Range(name)
            /\ lef.call.MAS[1] \in Range(name)

---------------------------------------------------------------------------
(* gwlss/sky.py: rotate_radec, called on its own *)

\* The rotation matrices of the lattice: the integer matrices M with
\* M^T M = I and determinant 1.
Det(M) ==
      M[1][1] * (M[2][2] * M[3][3] - M[2][3] * M[3][2])
    - M[1][2] * (M[2][1] * M[3][3] - M[2][3] * M[3][1])
    + M[1][3] * (M[2][1] * M[3][2] - M[2][2] * M[3][1])

AxisVectors == {v \in [1..3 -> (0 - 1)..1] : v[1] * v[1] + v[2] * v[2] + v[3] * v[3] = 1}

RotationMatrices ==
    {M \in [1..3 -> AxisVectors] : MatMul(Transpose(M), M) = Eye3 /\ Det(M) = 1}

\* Right ascensions in [0, 2 pi) and declinations in [-pi/2, pi/2].
RaDomain == 0..(2 * Pi - 1)
DecDomain == (0 - HalfPi)..HalfPi

SkyCalls ==
    [ra : [1..NSamples -> RaDomain], dec : [1..NSamples -> DecDomain],
     rotmat : RotationMatrices]

InitSky ==
    /\ IdleEval /\ InitFs
    /\ sky \in {[call |-> c, out |-> <<>>, back |-> <<>>] : c \in SkyCalls}
    /\ bias = Idle /\ pathq = Idle /\ lef = Idle /\ rrm = Idle /\ rd = Idle

\* One call of rotate_radec.
SkyRotate ==
    /\ sky.out = <<>>
    /\ sky' = [sky EXCEPT !.out =
                  <<RotateRadec(sky.call.ra, sky.call.dec, sky.call.rotmat)>>]
    /\ UNCHANGED <<evalVars, fsVars, bias, pathq, lef, rrm, rd>>

\* A second call of rotate_radec, on the arrays the first call returned and
\* with the transpose (the inverse) of its rotation matrix.
SkyRotateBack ==
    /\ sky.out # <<>>
    /\ sky.back = <<>>
    /\ sky' = [sky EXCEPT !.back =
                  <<RotateRadec(sky.out[1][1], sky.out[1][2],
                                Transpose(sky.call.rotmat))>>]
    /\ UNCHANGED <<evalVars, fsVars, bias, pathq, lef, rrm, rd>>

NextSky == SkyRotate \/ SkyRotateBack

SpecSky == InitSky /\ [][NextSky]_vars

SkyDone == sky # Idle /\ sky.out # <<>>

\* C10 as claimed: the arrays returned are as long as the inputs, every ra'
\* lies in [0, 2 pi) and every dec' in [-pi/2, pi/2].
C10_RotatedInHalfOpenDomain ==
    SkyDone =>
        /\ Len(sky.out[1][1]) = Len(sky.call.ra)
        /\ Len(sky.out[1][2]) = Len(sky.call.dec)
        /\ \A n \in DOMAIN sky.out[1][1] :
            0 <= sky.out[1][1][n] /\ sky.out[1][1][n] < 2 * Pi
        /\ \A n \in DOMAIN sky.out[1][2] :
            0 - HalfPi <= sky.out[1][2][n] /\ sky.out[1][2][n] <= HalfPi

\* C10, amended: the arrays returned are as long as the inputs, every ra'
\* lies in the closed interval [0, 2 pi] (it is 2 pi, unwrapped, when the
\* rotated longitude is pi) and every dec' in [-pi/2, pi/2].
C10_RotatedInClosedDomain ==
    SkyDone =>
        /\ Len(sky.out[1][1]) = Len(sky.call.ra)
        /\ Len(sky.out[1][2]) = Len(sky.call.dec)
        /\ \A n \in DOMAIN sky.out[1][1] :
            0 <= sky.out[1][1][n] /\ sky.out[1][1][n] <= 2 * Pi
        /\ \A n \in DOMAIN sky.out[1][2] :
            0 - HalfPi <= sky.out[1][2][n] /\ sky.out[1][2][n] <= HalfPi

C10_Witness ==
    /\ SkyDone
    /\ sky.call.rotmat # Eye3
    /\ sky.out[1][1][1] = 2 * Pi
    /\ sky.out[1][2][NSamples] = 0 - HalfPi

SkyBack == sky # Idle /\ sky.back # <<>>

\* The same position on the sky: equal declinations, and right ascensions
\* equal up to a full turn.
SamePosition(ra1, dec1, ra2, dec2) ==
    /\ Len(ra1) = Len(ra2) /\ Len(dec1) = Len(dec2)
    /\ \A n \in DOMAIN ra1 : (ra1[n] - ra2[n]) % (2 * Pi) = 0 /\ dec1[n] = dec2[n]

\* No sample sits on a pole, where the right ascension means nothing.
OffPoles(dec) == \A n \in DOMAIN dec : dec[n] # HalfPi /\ dec[n] # 0 - HalfPi

\* C11: rotate_radec is invertible: rotating by M and then by the transpose
\* of M returns the original (ra, dec); in particular the identity matrix
\* leaves the coordinates as they are.  Read in the claim's favour: only
\* inputs off the poles are compared, and right ascensions up to a full turn.
C11_RoundTripRecoversInput ==
    /\ (SkyBack /\ OffPoles(sky.call.dec)) =>
           SamePosition(sky.back[1][1], sky.back[1][2], sky.call.ra, sky.call.dec)
    /\ (SkyDone /\ OffPoles(sky.call.dec) /\ sky.call.rotmat = Eye3) =>
           SamePosition(sky.out[1][1], sky.out[1][2], sky.call.ra, sky.call.dec)

---------------------------------------------------------------------------
(* gwlss/sky.py: rand_rotation_matrix, called on its own *)

\* The largest integer seed tried.
MaxSeed == 7

\* The deflections of the lattice: none and full.
Deflections == {0, 1}

RrmCalls == [deflection : Deflections,
             seed : {None} \cup {PyInt(k) : k \in 0..MaxSeed}]

InitRrm ==
    /\ IdleEval /\ InitFs
    /\ rrm \in {[call |-> c, pc |-> "seed", draw |-> <<>>, M |-> <<>>] : c \in RrmCalls}
    /\ bias = Idle /\ pathq = Idle /\ lef = Idle /\ sky = Idle /\ rd = Idle

\* Lines 42-43: the generator is made from the seed and draws three variates.
RrmDraw ==
    /\ rrm.pc = "seed"
    /\ \E draw \in RandomStateUniform(rrm.call.seed) :
        rrm' = [rrm EXCEPT !.pc = "build", !.draw = draw]
    /\ UNCHANGED <<evalVars, fsVars, bias, pathq, lef, sky, rd>>

\* Lines 45-65: the matrix is built from the variates and returned.
RrmBuild ==
    /\ rrm.pc = "build"
    /\ rrm' = [rrm EXCEPT !.pc = "done",
                          !.M = RandRotationMatrix(rrm.call.deflection, rrm.draw)]
    /\ UNCHANGED <<evalVars, fsVars, bias, pathq, lef, sky, rd>>

NextRrm == RrmDraw \/ RrmBuild

SpecRrm == InitRrm /\ [][NextRrm]_vars

RrmDone == rrm # Idle /\ rrm.pc = "done"

\* C12: with deflection = 0 rand_rotation_matrix returns the identity
\* rotation, whatever the seed.
C12_NoDeflectionIsIdentity ==
    (RrmDone /\ rrm.call.deflection = 0) => rrm.M = Eye3

\* The squared length of V: the trace of V V^T.
SquaredLengthV(deflection, draw) ==
    LET o == OuterVV(deflection, draw) IN o[1][1] + o[2][2] + o[3][3]

\* C13: with deflection = 1 the matrix returned is orthonormal, M^T M = I,
\* for every seed, and the vector V it is built from has squared length 2.
C13_FullDeflectionOrthonormal ==
    (RrmDone /\ rrm.call.deflection = 1) =>
        /\ MatMul(Transpose(rrm.M), rrm.M) = Eye3
        /\ SquaredLengthV(rrm.call.deflection, rrm.draw) = 2

\* A seeded call with full deflection whose pole is deflected (z = 1) and
\* which turns about the pole.
C13_Witness ==
    /\ RrmDone
    /\ rrm.call.deflection = 1
    /\ rrm.call.seed # None
    /\ rrm.draw[3] = 1
    /\ rrm.draw[1] # 0
    /\ rrm.M # Eye3

---------------------------------------------------------------------------
(* Evaluated-field files: evaluate_event writes them, plot_field and
   load_event_field read them *)

\* The calls of plot_field tried, for the simulation evaluate_event is run on.
PlotCalls ==
    [event : {KnownEvent}, kind : {<<"overdensity">>}, nsims : {<<7444>>},
     grid : {512}, smooth_scale : {None, PyFloat(2)}, normalize : BOOLEAN]

\* scripts_plots/plot_event.py lines 150-152: the path of one simulation's
\* file; MAS and in_rsp keep their defaults.
PlotPath(c, k) ==
    EvaluatedFieldPath(c.event, c.kind, c.nsims[k], c.grid, <<"PCS">>, FALSE, TRUE,
                       c.smooth_scale)

\* scripts_plots/plot_event.py lines 149-158: the loop over the simulations,
\* from the k-th on: the error of the first file that is not there or lacks
\* a key read ("values" always, "std" always), or "" when all are read.
RECURSIVE PlotFieldLoop(_, _, _)
PlotFieldLoop(c, fs, k) ==
    IF k > Len(c.nsims) THEN ""
    ELSE LET found == {f \in fs : f.path = PlotPath(c, k)}
             data  == (CHOOSE f \in found : TRUE).data
         IN  IF found = {} THEN "FileNotFoundError"
             ELSE IF ~({"values", "std"} \subseteq DOMAIN data) THEN "KeyError"
             ELSE PlotFieldLoop(c, fs, k + 1)

\* The readers wait for evaluate_event; load_event_field is called for the
\* kind evaluate_event can save, in either frame.
InitStore ==
    /\ InitEval /\ InitFs
    /\ \E r \in BOOLEAN :
        lef = [call |-> [event |-> KnownEvent, kind |-> <<"overdensity">>, grid |-> 512,
                         MAS |-> <<"PCS">>, in_rsp |-> r, smooth_scales |-> <<0>>],
               pc |-> "loop", n |-> 0, fpath |-> <<>>, loaded |-> <<>>,
               ks |-> <<>>, out |-> <<>>, err |-> "", ret |-> <<>>]
    /\ rd = [pc |-> "wait", call |-> <<>>, err |-> ""]
    /\ bias = Idle /\ pathq = Idle /\ sky = Idle /\ rrm = Idle

\* plot_field is called once evaluate_event has returned.
StorePlotField ==
    /\ pc = "done"
    /\ rd.pc = "wait"
    /\ \E c \in PlotCalls :
        LET e == PlotFieldLoop(c, files, 1)
        IN  rd' = [pc |-> IF e = "" THEN "done" ELSE "failed", call |-> <<c>>, err |-> e]
    /\ dirs' = dirs \cup {EvaluatedDir}
    /\ UNCHANGED <<evalVars, files, bias, pathq, lef, sky, rrm>>

\* load_event_field is called once evaluate_event has returned.
StoreLoadEventField ==
    /\ pc = "done"
    /\ LefIteration

NextStore == Next \/ StorePlotField \/ StoreLoadEventField

SpecStore == InitStore /\ [][NextStore]_vars

\* C16: every file evaluate_event writes is a (mean, std, values) bundle, and
\* a reader that opens such a file finds every key it reads: neither
\* plot_field nor load_event_field ends with a missing key.
C16_ReadersFindWrittenKeys ==
    /\ \A f \in files : DOMAIN f.data = {"mean", "std", "values"}
    /\ rd # Idle => rd.err # "KeyError"
    /\ lef # Idle => lef.err # "KeyError"

=============================================================================
